---------------------------- MODULE Spec2Model ----------------------------
(***************************************************************************)
(* SignLink backend: template store (process_landmarks.save_landmarks,     *)
(* main.load_landmark_templates / get_sign_landmarks), nearest-centroid    *)
(* matcher (sign_classifier.classify), template builder                    *)
(* (process_landmarks.average_landmarks), gesture rule engine              *)
(* (main.detect_gestures) and dataset exporter                             *)
(* (sign_classifier.export_dataset).                                       *)
(*                                                                         *)
(* Conventions.  A Python str is a sequence of one-character strings, so   *)
(* that str.lower() is computed character by character.  A Python dict is  *)
(* a function (when only looked up) or a sequence of <<key, value>> pairs  *)
(* (when iterated: dicts iterate in insertion order).  None, a raised      *)
(* exception and "not yet called" are records tagged by a kind field.      *)
(***************************************************************************)
EXTENDS Integers, Sequences, FiniteSets, TLC

VARIABLES
    files,            \* backend/data: file name -> content of <name>_landmarks.json
    writing,          \* the extraction process's save in progress (file open for "w")
    SIGN_LANDMARKS,   \* main.py module-level dict: lowercased alias -> payload
    req,              \* the HTTP requests GET /landmarks/{sign} and their handlers
    running,          \* the request whose handler holds the event loop (0: none)
    scans,            \* number of DATA_DIR.glob scans load_landmark_templates has made
    loads,            \* number of DATA_DIR.glob scans load_templates has made
    landmarks,        \* classify: the live frame passed in
    templates,        \* classify: the dict load_templates() returned
    best_label,       \* classify: what the call returned
    pose,             \* detect_gestures: the pose landmarks passed in
    message,          \* detect_gestures: what the call returned
    frames,           \* average_landmarks: the frames passed in
    averages,         \* average_landmarks: what the call returned
    limit_frames,     \* export_dataset: the limit passed in
    rows              \* export_dataset: the rows dumped to out_path

vars == <<files, writing, SIGN_LANDMARKS, req, running, scans, loads, landmarks,
          templates, best_label, pose, message, frames, averages,
          limit_frames, rows>>

storeVars == <<files, writing>>
serverVars == <<SIGN_LANDMARKS, req, running, scans>>
matcherVars == <<landmarks, templates, best_label, loads>>
gestureVars == <<pose, message>>
builderVars == <<frames, averages>>
exportVars == <<limit_frames, rows>>

-----------------------------------------------------------------------------
(* Values shared by the components. *)

Pending == [kind |-> "pending"]      \* the call has not been made yet
None == [kind |-> "none"]            \* Python None
Min(a, b) == IF a < b THEN a ELSE b

RECURSIVE SumSeq(_)
SumSeq(s) == IF s = <<>> THEN 0 ELSE Head(s) + SumSeq(Tail(s))

-----------------------------------------------------------------------------
(* Gesture rule engine: main.detect_gestures.                              *)
(* Coordinates and visibilities are in units of 0.05, so that margin 0.15  *)
(* is 3 units and visibility_threshold 0.2 is 4 units.                     *)

GridMax == 6
Grid == 0..GridMax

margin == 3
visibility_threshold == 4

BothHands == [kind |-> "text", text |-> "both_hands"]
LeftHand == [kind |-> "text", text |-> "left_hand"]
RightHand == [kind |-> "text", text |-> "right_hand"]

Wrists == [y : Grid, visibility : Grid]
Poses == [nose_y : Grid, left_wrist : Wrists, right_wrist : Wrists]

left_up_le(p) ==
    (p.left_wrist.y <= p.nose_y + margin)
        /\ (p.left_wrist.visibility > visibility_threshold)

left_up(p) ==
    (p.left_wrist.y < p.nose_y + margin)
        /\ (p.left_wrist.visibility > visibility_threshold)

right_up(p) ==
    (p.right_wrist.y < p.nose_y + margin)
        /\ (p.right_wrist.visibility > visibility_threshold)

detect_gestures(p) ==
    IF left_up(p) /\ right_up(p) THEN BothHands
    ELSE IF left_up(p) THEN LeftHand
    ELSE IF right_up(p) THEN RightHand
    ELSE None

GestureIdle == pose = [nose_y |-> 0] /\ message = Pending

DetectGestures ==
    /\ message = Pending
    /\ message' = detect_gestures(pose)
    /\ UNCHANGED <<pose, storeVars, serverVars, matcherVars, builderVars, exportVars>>

-----------------------------------------------------------------------------
(* Strings and str.lower().                                                *)

LowerChar(c) ==
    CASE c = "H" -> "h"
      [] c = "I" -> "i"
      [] c = "O" -> "o"
      [] c = "K" -> "k"
      [] OTHER -> c

Lower(s) == [i \in 1..Len(s) |-> LowerChar(s[i])]

\* The sign labels used: three spellings of one label, one of another.
Signs == {<<"H", "i">>, <<"h", "i">>, <<"H", "I">>, <<"O", "k">>}

\* Every name a <name>_landmarks.json file could be given.
FileNames == Signs \cup {Lower(s) : s \in Signs}

-----------------------------------------------------------------------------
(* Landmark points and frames.  Coordinates are integers on a grid; a      *)
(* point is a dict with keys id, x, y and, optionally, z.                  *)

MaxPoints == 2

Point(i, c) == [id |-> i, x |-> c[1], y |-> c[2], z |-> c[3]]
PointNoZ(i, c) == [id |-> i, x |-> c[1], y |-> c[2]]

\* extract_landmarks: one dict per detected landmark, ids by enumerate().
FrameLandmarks(hand) == [i \in 1..Len(hand) |-> Point(i - 1, hand[i])]

\* A live frame whose points at the positions in noz carry no z key.
LiveLandmarks(hand, noz) ==
    [i \in 1..Len(hand) |->
        IF i \in noz THEN PointNoZ(i - 1, hand[i]) ELSE Point(i - 1, hand[i])]

SeqsUpTo(S, lo, hi) == UNION {[1..n -> S] : n \in lo..hi}

-----------------------------------------------------------------------------
(* Template store on disk: process_landmarks.save_landmarks.               *)

RetainCap == 50

Absent == [kind |-> "absent"]            \* no such file
Unparsable == [kind |-> "unparsable"]    \* opened for "w", JSON not yet complete
Idle == [kind |-> "idle"]

\* DATA_DIR / f"{sign.lower()}_landmarks.json"
out_path(sign) == Lower(sign)

payload_of(sign, video_url, fs, avgs) ==
    [kind |-> "record",
     sign |-> sign,
     alias |-> Lower(sign),
     video |-> video_url,
     frames_sampled |-> Len(fs),
     average |-> avgs,
     frames |-> SubSeq(fs, 1, Min(Len(fs), RetainCap))]

\* with out_path.open("w"): the file is truncated before the JSON is written.
SaveOpen(sign, fs, avgs) ==
    /\ writing = Idle
    /\ writing' = [kind |-> "open", name |-> out_path(sign),
                   payload |-> payload_of(sign, "url", fs, avgs)]
    /\ files' = [files EXCEPT ![out_path(sign)] = Unparsable]
    /\ UNCHANGED <<serverVars, matcherVars, gestureVars, builderVars, exportVars>>

\* json.dump completes and the file is closed.
SaveClose ==
    /\ writing # Idle
    /\ files' = [files EXCEPT ![writing.name] = writing.payload]
    /\ writing' = Idle
    /\ UNCHANGED <<serverVars, matcherVars, gestureVars, builderVars, exportVars>>

\* The files a DATA_DIR.glob("*_landmarks.json") scan finds.
Present(fls) == {n \in DOMAIN fls : fls[n] # Absent}

\* glob yields the directory's entries in no guaranteed order.
ScanOrders(fls) ==
    {o \in [1..Cardinality(Present(fls)) -> Present(fls)] :
        \A i, j \in DOMAIN o : i # j => o[i] # o[j]}

\* alias = payload.get("alias") or payload.get("sign")
AliasOf(payload) ==
    IF "alias" \in DOMAIN payload /\ payload.alias # <<>> THEN payload.alias
    ELSE payload.sign

-----------------------------------------------------------------------------
(* Template store in memory: main.load_landmark_templates and the handler  *)
(* of GET /landmarks/{sign}, main.get_sign_landmarks.                      *)
(*                                                                         *)
(* The handler is an "async def" with no await in its body, so the event   *)
(* loop runs it from its first line to its return before it starts any     *)
(* other handler: CanRun.  The extraction process is another OS process    *)
(* and writes files at any moment.                                         *)

NumRequests == 2
Requests == 1..NumRequests

NotFound == [kind |-> "http404"]     \* HTTPException(status_code=404)
Raised == [kind |-> "raised"]        \* an exception left the call

Arrived == [pc |-> "arrived"]

EmptyDict == <<>>
DictSet(d, key, value) ==
    [k \in DOMAIN d \cup {key} |-> IF k = key THEN value ELSE d[k]]
DictGet(d, key) == IF key \in DOMAIN d THEN d[key] ELSE None

CanRunAwait(r) == TRUE

\* No await between the handler's first line and its return.
CanRun(r) == running \in {0, r}

\* Requests are numbered in arrival order and the event loop starts their
\* handlers in that order.
NextInQueue(r) == \A q \in Requests : q < r => req[q].pc # "arrived"

lookup_key_raw(sign) == sign

\* SIGN_LANDMARKS.get(sign.lower())
lookup_key(sign) == Lower(sign)

get_sign_landmarks(d, sign) ==
    LET payload == DictGet(d, lookup_key(sign))
    IN  IF payload = None THEN NotFound ELSE payload

\* if not SIGN_LANDMARKS: load_landmark_templates() -- the glob scan starts.
Begin(r, sign) ==
    /\ req[r].pc = "arrived"
    /\ NextInQueue(r)
    /\ CanRun(r)
    /\ running' = r
    /\ IF DOMAIN SIGN_LANDMARKS = {}
       THEN /\ scans' = scans + 1
            /\ \E order \in ScanOrders(files) :
                   req' = [req EXCEPT ![r] =
                             [pc |-> IF order = <<>> THEN "lookup" ELSE "loading",
                              sign |-> sign, todo |-> order]]
       ELSE /\ scans' = scans
            /\ req' = [req EXCEPT ![r] =
                         [pc |-> "lookup", sign |-> sign, todo |-> <<>>]]
    /\ UNCHANGED <<SIGN_LANDMARKS, storeVars, matcherVars, gestureVars,
                   builderVars, exportVars>>

\* One iteration of load_landmark_templates: json.load, then
\* SIGN_LANDMARKS[alias.lower()] = payload.
LoadFile(r) ==
    /\ req[r].pc = "loading"
    /\ CanRun(r)
    /\ LET payload == files[Head(req[r].todo)]
           rest == Tail(req[r].todo)
       IN  /\ payload.kind = "record"
           /\ SIGN_LANDMARKS' = DictSet(SIGN_LANDMARKS, Lower(AliasOf(payload)), payload)
           /\ req' = [req EXCEPT ![r].todo = rest,
                                 ![r].pc = IF rest = <<>> THEN "lookup" ELSE "loading"]
    /\ running' = r
    /\ UNCHANGED <<scans, storeVars, matcherVars, gestureVars, builderVars, exportVars>>

\* json.load raises on a file whose JSON is incomplete; nothing catches it, so
\* the exception leaves load_landmark_templates and the handler.
LoadFileRaises(r) ==
    /\ req[r].pc = "loading"
    /\ CanRun(r)
    /\ files[Head(req[r].todo)].kind = "unparsable"
    /\ req' = [req EXCEPT ![r] =
                 [pc |-> "done", sign |-> req[r].sign, response |-> Raised]]
    /\ running' = 0
    /\ UNCHANGED <<SIGN_LANDMARKS, scans, storeVars, matcherVars, gestureVars,
                   builderVars, exportVars>>

\* payload = SIGN_LANDMARKS.get(sign.lower()); 404 if not payload.
Lookup(r) ==
    /\ req[r].pc = "lookup"
    /\ CanRun(r)
    /\ req' = [req EXCEPT ![r] =
                 [pc |-> "done", sign |-> req[r].sign,
                  response |-> get_sign_landmarks(SIGN_LANDMARKS, req[r].sign)]]
    /\ running' = 0
    /\ UNCHANGED <<SIGN_LANDMARKS, scans, storeVars, matcherVars, gestureVars,
                   builderVars, exportVars>>

-----------------------------------------------------------------------------
(* Matcher: sign_classifier.load_templates, euclidean_distance, classify.  *)

MaxCalls == 2

NotLoaded == [kind |-> "notloaded"]
Dict(items) == [kind |-> "dict", items |-> items]

\* d[key] = value on a dict kept in insertion order: a key already present keeps
\* its place, a new key goes last.
OrderedSet(items, key, value) ==
    IF \E i \in DOMAIN items : items[i][1] = key
    THEN [i \in DOMAIN items |->
            IF items[i][1] = key THEN <<key, value>> ELSE items[i]]
    ELSE Append(items, <<key, value>>)

\* payload.get("average", [])
AverageOf(payload) ==
    IF "average" \in DOMAIN payload THEN payload.average ELSE <<>>

\* The loop of load_templates over the scanned files, in scan order.  json.load
\* raises on an incomplete file and nothing catches it.
RECURSIVE LoadFrom(_, _, _)
LoadFrom(order, fls, items) ==
    IF order = <<>> THEN Dict(items)
    ELSE LET payload == fls[Head(order)]
         IN  IF payload.kind # "record" THEN Raised
             ELSE LoadFrom(Tail(order), fls,
                           OrderedSet(items, Lower(AliasOf(payload)), AverageOf(payload)))

load_templates(fls, order) == LoadFrom(order, fls, <<>>)

Abs(a) == IF a < 0 THEN -a ELSE a

\* math.sqrt, in fixed point with two decimals: the largest k with
\* (k/10)^2 <= n, as an integer number of tenths.
ISqrt10(n, hi) == CHOOSE k \in 0..hi : k * k <= 100 * n /\ 100 * n < (k + 1) * (k + 1)

\* p.get("z", 0.0)
GetZ(p) == IF "z" \in DOMAIN p THEN p.z ELSE 0

euclidean_distance(p1, p2) ==
    LET dx == p1.x - p2.x
        dy == p1.y - p2.y
        dz == GetZ(p1) - GetZ(p2)
    IN  ISqrt10(dx * dx + dy * dy + dz * dz, 10 * (Abs(dx) + Abs(dy) + Abs(dz)))

\* sum(euclidean_distance(landmarks[i], template[i]) ...) / len(template), kept
\* as the exact quotient num/den.
ScoreOf(lm, template) ==
    [num |-> SumSeq([i \in 1..Len(template) |-> euclidean_distance(lm[i], template[i])]),
     den |-> Len(template)]

Inf == [kind |-> "inf"]

ScoreLessOrEqual(score, best) ==
    IF best = Inf THEN TRUE ELSE score.num * best.den <= best.num * score.den

\* score < best_score, with best_score = float("inf") at first.
ScoreLess(score, best) ==
    IF best = Inf THEN TRUE ELSE score.num * best.den < best.num * score.den

CompatibleAtMost(template, lm) == Len(template) <= Len(lm)

\* if len(template) != len(landmarks): continue
Compatible(template, lm) == Len(template) = Len(lm)

\* The loop of classify over templates.items().
RECURSIVE ClassifyLoop(_, _, _, _)
ClassifyLoop(items, lm, label, score) ==
    IF items = <<>> THEN label
    ELSE LET template == Head(items)[2]
         IN  IF ~Compatible(template, lm)
             THEN ClassifyLoop(Tail(items), lm, label, score)
             ELSE LET s == ScoreOf(lm, template)
                  IN  IF ScoreLess(s, score)
                      THEN ClassifyLoop(Tail(items), lm,
                                        [kind |-> "label", label |-> Head(items)[1]], s)
                      ELSE ClassifyLoop(Tail(items), lm, label, score)

\* classify, given what load_templates() returned.
classify(lm, loaded) ==
    IF loaded = Raised THEN Raised
    ELSE IF loaded.items = <<>> \/ lm = <<>> THEN None
    ELSE ClassifyLoop(loaded.items, lm, None, Inf)

MatcherIdle ==
    landmarks = <<>> /\ templates = NotLoaded /\ best_label = Pending /\ loads = 0

\* One call classify(landmarks): templates = load_templates() scans DATA_DIR.
Classify ==
    /\ best_label = Pending
    /\ running = 0
    /\ \E order \in ScanOrders(files) :
           /\ templates' = load_templates(files, order)
           /\ best_label' = classify(landmarks, templates')
    /\ loads' = loads + 1
    /\ UNCHANGED <<landmarks, serverVars, storeVars, gestureVars, builderVars, exportVars>>

\* The caller classifies the next live frame.
NextCall(lm) ==
    /\ best_label # Pending
    /\ loads < MaxCalls
    /\ landmarks' = lm
    /\ templates' = NotLoaded
    /\ best_label' = Pending
    /\ UNCHANGED <<loads, serverVars, storeVars, gestureVars, builderVars, exportVars>>

-----------------------------------------------------------------------------
(* Template builder: process_landmarks.average_landmarks.                  *)

MaxFrames == 2

\* Detector output for one landmark: (x, y, z) on the grid.
CoordSamples == {<<0, 0, 0>>, <<1, 2, 2>>, <<0, 0, 1>>}

\* The frames extract_landmarks builds from hands of n landmarks each.
ExtractedFrames(n) == {FrameLandmarks(h) : h \in [1..n -> CoordSamples]}

\* accum / len(frames): the exact quotient num/den.
Quot(a, n) == [num |-> a, den |-> n]

\* A Python list returned by a call.
List(items) == [kind |-> "list", items |-> items]

\* accum[point["id"]] += np.array([x, y, z]); an id outside 0..num_points-1
\* raises IndexError (ok becomes FALSE).
RECURSIVE AccumPoints(_, _)
AccumPoints(points, accum) ==
    IF ~accum.ok \/ points = <<>> THEN accum
    ELSE LET p == Head(points)
         IN  IF p.id + 1 \notin DOMAIN accum.sums THEN [accum EXCEPT !.ok = FALSE]
             ELSE AccumPoints(Tail(points),
                    [accum EXCEPT !.sums[p.id + 1] =
                        <<@[1] + p.x, @[2] + p.y, @[3] + p.z>>])

RECURSIVE AccumFrames(_, _)
AccumFrames(fs, accum) ==
    IF ~accum.ok \/ fs = <<>> THEN accum
    ELSE AccumFrames(Tail(fs), AccumPoints(Head(fs), accum))

DivisorPoints(fs) == Len(fs[1])

\* accum[idx] / len(frames)
Divisor(fs) == Len(fs)

average_landmarks(fs) ==
    IF fs = <<>> THEN List(<<>>)
    ELSE LET num_points == Len(fs[1])
             accum == AccumFrames(fs, [ok |-> TRUE,
                                       sums |-> [i \in 1..num_points |-> <<0, 0, 0>>]])
         IN  IF ~accum.ok THEN Raised
             ELSE List([i \in 1..num_points |->
                     [id |-> i - 1,
                      x |-> Quot(accum.sums[i][1], Divisor(fs)),
                      y |-> Quot(accum.sums[i][2], Divisor(fs)),
                      z |-> Quot(accum.sums[i][3], Divisor(fs))]])

BuilderIdle == frames = <<>> /\ averages = Pending

AverageLandmarks ==
    /\ averages = Pending
    /\ averages' = average_landmarks(frames)
    /\ UNCHANGED <<frames, storeVars, serverVars, matcherVars, gestureVars, exportVars>>

-----------------------------------------------------------------------------
(* Dataset exporter: sign_classifier.export_dataset.                       *)

MaxLimit == 2

IntVal(n) == [kind |-> "int", n |-> n]

\* A later point with the same id overwrites the row's cells of an earlier one.
LastWithId(frame, id) ==
    frame[CHOOSE j \in DOMAIN frame :
            frame[j].id = id /\ \A k \in DOMAIN frame : frame[k].id = id => k <= j]

\* row[f"x_{id}"] = point["x"], and so on for y and z.
RowOf(alias, frame) ==
    [label |-> alias,
     cells |-> [c \in {"x", "y", "z"} \X {frame[i].id : i \in DOMAIN frame} |->
                  LET p == LastWithId(frame, c[2])
                  IN  IF c[1] = "x" THEN p.x
                      ELSE IF c[1] = "y" THEN p.y
                      ELSE GetZ(p)]]

\* if limit_frames: frames = frames[:limit_frames]
Limited(fs, limit) ==
    IF limit # None /\ limit.n # 0 THEN SubSeq(fs, 1, Min(limit.n, Len(fs))) ELSE fs

\* payload.get("frames", [])
FramesOf(payload) == IF "frames" \in DOMAIN payload THEN payload.frames ELSE <<>>

RECURSIVE ExportFrom(_, _, _, _)
ExportFrom(order, fls, limit, out) ==
    IF order = <<>> THEN List(out)
    ELSE LET payload == fls[Head(order)]
         IN  IF payload.kind # "record" THEN Raised
             ELSE LET fs == Limited(FramesOf(payload), limit)
                  IN  ExportFrom(Tail(order), fls, limit,
                        out \o [i \in 1..Len(fs) |-> RowOf(AliasOf(payload), fs[i])])

export_dataset(fls, order, limit) == ExportFrom(order, fls, limit, <<>>)

ExportIdle == limit_frames = None /\ rows = Pending

ExportDataset ==
    /\ rows = Pending
    /\ \E order \in ScanOrders(files) :
           rows' = export_dataset(files, order, limit_frames)
    /\ UNCHANGED <<limit_frames, storeVars, serverVars, matcherVars, gestureVars,
                   builderVars>>

-----------------------------------------------------------------------------
(* Specifications.  Each component is exercised by a specification of its  *)
(* own; the variables of the other components stay at their idle values.   *)

Keys == {Lower(s) : s \in Signs}

StoreIdle == files = [n \in FileNames |-> Absent] /\ writing = Idle

ServerIdle ==
    /\ SIGN_LANDMARKS = EmptyDict
    /\ req = [r \in Requests |-> Arrived]
    /\ running = 0
    /\ scans = 0

\* The averaged frames a template can hold, and the live frames of a query.
TemplateFrames == {FrameLandmarks(h) : h \in SeqsUpTo(CoordSamples, 1, MaxPoints)}
LiveFrames ==
    {LiveLandmarks(h, noz) : h \in SeqsUpTo(CoordSamples, 0, MaxPoints), noz \in {{}, {1}}}

\* What file k holds after save_landmarks(sign, url, frames, averages) for a
\* sign among signs and a <<frames, averages>> among saved; partial: the file
\* may also be caught while it is being written.
FileContents(k, signs, saved, partial) ==
    {Absent} \cup (IF partial THEN {Unparsable} ELSE {})
        \cup {payload_of(sg, "url", sv[1], sv[2]) :
                sg \in {x \in signs : out_path(x) = k}, sv \in saved}

Directories(signs, saved, partial) ==
    {[n \in FileNames |-> IF n \in Keys THEN g[n] ELSE Absent] :
        g \in {h \in [Keys -> UNION {FileContents(k, signs, saved, partial) : k \in Keys}] :
                 \A k \in Keys : h[k] \in FileContents(k, signs, saved, partial)}}

----
\* Gesture rule engine.
InitGesture ==
    /\ pose \in Poses
    /\ message = Pending
    /\ StoreIdle /\ ServerIdle /\ MatcherIdle /\ BuilderIdle /\ ExportIdle

NextGesture == DetectGestures

SpecGesture == InitGesture /\ [][NextGesture]_vars

----
\* Template builder.
InitBuilder ==
    /\ frames \in UNION {[1..n -> ExtractedFrames(np)] :
                            n \in 0..MaxFrames, np \in 1..MaxPoints}
    /\ averages = Pending
    /\ StoreIdle /\ ServerIdle /\ MatcherIdle /\ GestureIdle /\ ExportIdle

NextBuilder == AverageLandmarks

SpecBuilder == InitBuilder /\ [][NextBuilder]_vars

----
\* Matcher: classify is called on a live frame against a directory that the
\* extraction process has written (or is writing).
MatcherSigns == {<<"H", "i">>, <<"O", "k">>}

InitMatcher ==
    /\ files \in Directories(MatcherSigns, {<<(<<t>>), t>> : t \in TemplateFrames}, TRUE)
    /\ writing = Idle
    /\ landmarks \in LiveFrames
    /\ templates = NotLoaded
    /\ best_label = Pending
    /\ loads = 0
    /\ ServerIdle /\ GestureIdle /\ BuilderIdle /\ ExportIdle

NextMatcher == Classify

SpecMatcher == InitMatcher /\ [][NextMatcher]_vars

----
\* Dataset exporter: export_dataset is called once on a directory of saved
\* signs, each with 1..MaxFrames retained raw frames.
RawFrames == SeqsUpTo(ExtractedFrames(1), 1, MaxFrames)
Limits == {None} \cup {IntVal(k) : k \in 0..MaxLimit}

InitExport ==
    /\ files \in Directories(MatcherSigns, {<<fs, fs[1]>> : fs \in RawFrames}, TRUE)
    /\ writing = Idle
    /\ limit_frames \in Limits
    /\ rows = Pending
    /\ ServerIdle /\ MatcherIdle /\ GestureIdle /\ BuilderIdle

NextExport == ExportDataset

SpecExport == InitExport /\ [][NextExport]_vars

----
\* Server: the extraction process saves signs into an initially empty
\* directory while the server handles GET /landmarks/{sign} requests.
SavedTemplate == FrameLandmarks(<<(<<0, 0, 0>>)>>)

InitServer == StoreIdle /\ ServerIdle /\ MatcherIdle /\ GestureIdle /\ BuilderIdle /\ ExportIdle

NextServer ==
    \/ \E sign \in Signs : SaveOpen(sign, <<SavedTemplate>>, SavedTemplate)
    \/ SaveClose
    \/ \E r \in Requests, sign \in Signs : Begin(r, sign)
    \/ \E r \in Requests : LoadFile(r)
    \/ \E r \in Requests : LoadFileRaises(r)
    \/ \E r \in Requests : Lookup(r)

SpecServer == InitServer /\ [][NextServer]_vars

----
\* Concurrent first lookups: all requests have arrived before any handler
\* runs, against a directory of complete files that nobody is writing.
InitConcurrent ==
    /\ files \in Directories(Signs, {<<(<<SavedTemplate>>), SavedTemplate>>}, FALSE)
    /\ writing = Idle
    /\ ServerIdle /\ MatcherIdle /\ GestureIdle /\ BuilderIdle /\ ExportIdle

NextConcurrent ==
    \/ \E r \in Requests, sign \in Signs : Begin(r, sign)
    \/ \E r \in Requests : LoadFile(r)
    \/ \E r \in Requests : Lookup(r)

SpecConcurrent == InitConcurrent /\ [][NextConcurrent]_vars

----
\* Queries of one process: lookups and classify calls, in any order, against
\* a directory of complete files that holds at least one sign.
QueryFrames == {<<>>, SavedTemplate}

InitQueries ==
    /\ files \in {d \in Directories(Signs, {<<(<<SavedTemplate>>), SavedTemplate>>}, FALSE) :
                     Present(d) # {}}
    /\ writing = Idle
    /\ landmarks \in QueryFrames
    /\ templates = NotLoaded
    /\ best_label = Pending
    /\ loads = 0
    /\ ServerIdle /\ GestureIdle /\ BuilderIdle /\ ExportIdle

NextQueries ==
    \/ Classify
    \/ \E lm \in QueryFrames : NextCall(lm)
    \/ \E r \in Requests, sign \in Signs : Begin(r, sign)
    \/ \E r \in Requests : LoadFile(r)
    \/ \E r \in Requests : Lookup(r)

SpecQueries == InitQueries /\ [][NextQueries]_vars

-----------------------------------------------------------------------------
(* Claims about the gesture rule engine (SpecGesture).                     *)

WristRaised(w) ==
    w.y < pose.nose_y + margin /\ w.visibility > visibility_threshold

\* C4: detect_gestures returns the both-hands message iff both wrists are
\* raised, the left-hand message iff only the left one is, the right-hand
\* message iff only the right one is, and None iff neither is, where a wrist
\* is raised exactly when y < nose.y + margin and visibility > threshold, both
\* strict: a wrist at y = nose.y + margin is not raised, one a grid step
\* above it (with enough visibility) is.
C4_GestureRule ==
    message # Pending =>
        LET l == WristRaised(pose.left_wrist)
            r == WristRaised(pose.right_wrist)
        IN  /\ (message = BothHands) <=> (l /\ r)
            /\ (message = LeftHand) <=> (l /\ ~r)
            /\ (message = RightHand) <=> (r /\ ~l)
            /\ (message = None) <=> (~l /\ ~r)
            /\ pose.left_wrist.y = pose.nose_y + margin
                  => message \notin {BothHands, LeftHand}
            /\ pose.right_wrist.y = pose.nose_y + margin
                  => message \notin {BothHands, RightHand}
            /\ (pose.left_wrist.y = pose.nose_y + margin - 1
                  /\ pose.left_wrist.visibility = visibility_threshold + 1)
                  => message \in {BothHands, LeftHand}
            /\ (pose.right_wrist.y = pose.nose_y + margin - 1
                  /\ pose.right_wrist.visibility = visibility_threshold + 1)
                  => message \in {BothHands, RightHand}
            /\ pose.left_wrist.visibility = visibility_threshold
                  => message \notin {BothHands, LeftHand}

\* The right wrist is raised by one grid step; the left one sits exactly on the
\* margin boundary with full visibility and does not count.
C4_Witness ==
    /\ message = RightHand
    /\ pose.left_wrist.y = pose.nose_y + margin
    /\ pose.left_wrist.visibility > visibility_threshold
    /\ pose.right_wrist.y = pose.nose_y + margin - 1

-----------------------------------------------------------------------------
(* Claims about the template builder (SpecBuilder).                        *)

IdsOf(frame) == {frame[i].id : i \in DOMAIN frame}
PointById(frame, id) == frame[CHOOSE i \in DOMAIN frame : frame[i].id = id]
SameIds(fs) == \A f \in DOMAIN fs : IdsOf(fs[f]) = IdsOf(fs[1])

\* C8: for N >= 1 frames that all carry the same point ids, average_landmarks
\* returns (without raising) exactly one entry per id, whose x, y and z are the
\* sum of that id's values over the N frames divided by N; for N = 0 it
\* returns the empty list.
C8_AveragingCorrect ==
    (averages # Pending /\ SameIds(frames)) =>
        IF frames = <<>> THEN averages = List(<<>>)
        ELSE /\ averages.kind = "list"
             /\ LET n == Len(frames)
                    avg == averages.items
                    Total(id, axis) ==
                        SumSeq([f \in 1..n |->
                            LET p == PointById(frames[f], id)
                            IN  IF axis = "x" THEN p.x
                                ELSE IF axis = "y" THEN p.y ELSE p.z])
                IN  /\ Len(avg) = Cardinality(IdsOf(frames[1]))
                    /\ {avg[i].id : i \in DOMAIN avg} = IdsOf(frames[1])
                    /\ \A i \in DOMAIN avg :
                          /\ avg[i].x = Quot(Total(avg[i].id, "x"), n)
                          /\ avg[i].y = Quot(Total(avg[i].id, "y"), n)
                          /\ avg[i].z = Quot(Total(avg[i].id, "z"), n)

\* Two different frames of one point each were averaged.
C8_Witness ==
    /\ averages # Pending
    /\ averages.kind = "list"
    /\ Len(frames) = 2
    /\ frames[1] # frames[2]
    /\ Len(averages.items) = 1
    /\ averages.items[1].x = Quot(frames[1][1].x + frames[2][1].x, 2)

-----------------------------------------------------------------------------
(* Claims about the matcher (SpecMatcher).                                 *)

Returned == best_label # Pending
Items == templates.items

\* The position of the returned label in the loaded dict.
BestIndex == CHOOSE i \in DOMAIN Items : Items[i][1] = best_label.label

\* A template is scored "over its own points" against the first points of the
\* live frame when it is not longer than the live frame.
PrefixScore(template) == ScoreOf(landmarks, template)

\* C1: classify never returns the label of a template whose averaged point
\* list has a length other than the live frame's, whatever the directory holds
\* and even when such a template would score lowest over its own points.
C1_CompatibilityGate ==
    (Returned /\ best_label.kind = "label") =>
        /\ \E i \in DOMAIN Items : Items[i][1] = best_label.label
        /\ \A i \in DOMAIN Items :
               Items[i][1] = best_label.label => Len(Items[i][2]) = Len(landmarks)
        /\ \A n \in Present(files) :
               (files[n].kind = "record" /\ Lower(AliasOf(files[n])) = best_label.label)
                   => Len(AverageOf(files[n])) = Len(landmarks)

\* A shorter template lies exactly on the live frame's first point (score 0
\* over its own points) and the label of a compatible template at a positive
\* distance is returned instead.
C1_Witness ==
    /\ Returned
    /\ best_label.kind = "label"
    /\ Len(landmarks) = 2
    /\ ScoreOf(landmarks, Items[BestIndex][2]).num > 0
    /\ \E i \in DOMAIN Items :
           /\ Len(Items[i][2]) = 1
           /\ PrefixScore(Items[i][2]).num = 0

\* C2: for a non-empty live frame, classify returns the compatible template
\* with the minimal mean positional distance and, among templates of equal
\* minimal score, the first in the dict's iteration order; a template equal to
\* the live frame (score 0) therefore wins over every template of nonzero
\* score, wherever it stands in the iteration order.
C2_SelectionRule ==
    (Returned /\ best_label # Raised /\ landmarks # <<>>
        /\ \E i \in DOMAIN Items : Compatible(Items[i][2], landmarks)) =>
        /\ best_label.kind = "label"
        /\ LET b == BestIndex
               sb == ScoreOf(landmarks, Items[b][2])
           IN  /\ Len(Items[b][2]) = Len(landmarks)
               /\ \A j \in DOMAIN Items :
                      Len(Items[j][2]) = Len(landmarks) =>
                          LET sj == ScoreOf(landmarks, Items[j][2])
                          IN  /\ sb.num * sj.den <= sj.num * sb.den
                              /\ j < b => sb.num * sj.den < sj.num * sb.den
               /\ (\E j \in DOMAIN Items :
                      /\ Len(Items[j][2]) = Len(landmarks)
                      /\ \A k \in DOMAIN landmarks :
                            /\ Items[j][2][k].x = landmarks[k].x
                            /\ Items[j][2][k].y = landmarks[k].y
                            /\ Items[j][2][k].z = GetZ(landmarks[k]))
                  => sb.num = 0

\* Two compatible templates tie at a positive score and the first one in
\* iteration order is returned.
C2_Witness ==
    /\ Returned
    /\ best_label.kind = "label"
    /\ Len(Items) = 2
    /\ BestIndex = 1
    /\ Len(Items[2][2]) = Len(landmarks)
    /\ ScoreOf(landmarks, Items[1][2]) = ScoreOf(landmarks, Items[2][2])
    /\ ScoreOf(landmarks, Items[1][2]).num > 0
    /\ Items[1][2] # Items[2][2]

\* The exact match stands last in the iteration order and is returned.
C2_WitnessExact ==
    /\ Returned
    /\ best_label.kind = "label"
    /\ Len(Items) = 2
    /\ BestIndex = 2
    /\ ScoreOf(landmarks, Items[2][2]).num = 0
    /\ Len(Items[1][2]) = Len(landmarks)
    /\ ScoreOf(landmarks, Items[1][2]).num > 0

\* C3: classify returns None, and never raises, when no template exists, when
\* the live frame is empty, or when no template has the live frame's point
\* count; for an empty live frame whatever the directory holds, a file with
\* incomplete JSON included.
C3_NoMatchLaw ==
    Returned =>
        /\ landmarks = <<>> => best_label = None
        /\ Present(files) = {} => best_label = None
        /\ (\A n \in Present(files) :
               files[n].kind = "record" /\ Len(AverageOf(files[n])) # Len(landmarks))
               => best_label = None

\* C9 (SpecQueries): over any sequence of lookups and classify calls in one
\* process, the directory is scanned at most once for the lookups' mapping and
\* at most once for the matcher's templates: never once per request.
C9_ScanAtMostOnce == scans <= 1 /\ loads <= 1

-----------------------------------------------------------------------------
(* Claims about the dataset exporter (SpecExport).                         *)

RowsOf(alias) == {i \in DOMAIN rows.items : rows.items[i].label = alias}

\* C7: exporting with a raw-frame limit K >= 0 (K = 0 included) from a
\* directory in which every sign has at least K retained raw frames produces
\* exactly K rows per sign.
C7_ExportRowCount ==
    (/\ rows # Pending
     /\ rows # Raised
     /\ limit_frames # None
     /\ \A n \in Present(files) :
            files[n].kind = "record" /\ Len(FramesOf(files[n])) >= limit_frames.n)
    => \A n \in Present(files) :
           Cardinality(RowsOf(AliasOf(files[n]))) = limit_frames.n

-----------------------------------------------------------------------------
(* Claims about the template store (SpecServer, SpecConcurrent).           *)

Done(r) == req[r].pc = "done"

\* C5: a file that fails to parse is skipped by the load; the failure does not
\* leave the load as an error, so no request ends with an exception.
C5_LoadNeverRaises == \A r \in Requests : Done(r) => req[r].response # Raised

\* C6: differently-cased spellings of a label are saved under one file name,
\* the lowercased label; every in-memory key is the lowercased alias of its
\* record; a lookup gives the same answer for every spelling of a label, and
\* the record it answers with is the one stored for that label.
C6_CaseInsensitive ==
    /\ \A n \in Present(files) :
           /\ n = Lower(n)
           /\ files[n].kind = "record" =>
                  Lower(files[n].sign) = n /\ Lower(files[n].alias) = n
    /\ \A k \in DOMAIN SIGN_LANDMARKS :
           k = Lower(k) /\ k = Lower(AliasOf(SIGN_LANDMARKS[k]))
    /\ \A s1, s2 \in Signs :
           Lower(s1) = Lower(s2) =>
               /\ out_path(s1) = out_path(s2)
               /\ get_sign_landmarks(SIGN_LANDMARKS, s1)
                      = get_sign_landmarks(SIGN_LANDMARKS, s2)
    /\ \A r \in Requests :
           (Done(r) /\ req[r].response.kind = "record") =>
               /\ Lower(req[r].response.sign) = Lower(req[r].sign)
               /\ req[r].response = SIGN_LANDMARKS[Lower(req[r].sign)]
    /\ \A r1, r2 \in Requests :
           (/\ Done(r1) /\ Done(r2)
            /\ Lower(req[r1].sign) = Lower(req[r2].sign)
            /\ req[r1].response.kind = "record"
            /\ req[r2].response.kind = "record")
           => req[r1].response = req[r2].response

\* Two lookups under two spellings of a label both got the record that was
\* saved under a third spelling.
C6_Witness ==
    \E r1, r2 \in Requests :
        /\ Done(r1) /\ Done(r2)
        /\ req[r1].sign # req[r2].sign
        /\ req[r1].response.kind = "record"
        /\ req[r1].response = req[r2].response
        /\ req[r1].response.sign \notin {req[r1].sign, req[r2].sign}

\* C10: whatever the interleaving of concurrent first lookups against a fixed
\* directory of complete files, no lookup reads the mapping while it is partly
\* populated, no lookup of a persisted label ends not-found, and once no load
\* is running the mapping holds exactly one entry per file, under the
\* lowercased alias of its record.
C10_PopulateOnce ==
    /\ \A r \in Requests :
           req[r].pc = "lookup" => DOMAIN SIGN_LANDMARKS = Present(files)
    /\ \A r \in Requests :
           Done(r) =>
               /\ req[r].response # Raised
               /\ files[Lower(req[r].sign)] # Absent
                      => req[r].response = files[Lower(req[r].sign)]
    /\ (running = 0 /\ scans > 0) =>
           /\ Cardinality(DOMAIN SIGN_LANDMARKS) = Cardinality(Present(files))
           /\ \A n \in Present(files) :
                  /\ Lower(AliasOf(files[n])) \in DOMAIN SIGN_LANDMARKS
                  /\ SIGN_LANDMARKS[Lower(AliasOf(files[n]))] = files[n]
    /\ Present(files) # {} => scans <= 1

\* Every request has been answered after a single scan of a directory of two
\* files, and lookups of both labels got their records.
C10_Witness ==
    /\ \A r \in Requests : Done(r)
    /\ scans = 1
    /\ Cardinality(Present(files)) = 2
    /\ \E r1, r2 \in Requests :
           /\ Lower(req[r1].sign) # Lower(req[r2].sign)
           /\ req[r1].response.kind = "record"
           /\ req[r2].response.kind = "record"

=============================================================================
